---- MODULE Spec2Model ----
(***************************************************************************)
(* Model of Ubuntu_image-fetcher.py: the filename sanitizer, the index     *)
(* load/save, make_unique_path, download_image and the main loop.          *)
(*                                                                         *)
(* A string is a sequence of one-character strings.  The output directory  *)
(* is a function from base names to file contents.  A digest is modelled   *)
(* by the byte sequence it was computed from (SHA-256 taken as injective). *)
(***************************************************************************)
EXTENDS Integers, Sequences, FiniteSets, TLC

VARIABLES
    fs,             \* the output directory: base name -> file content
    index,          \* main's in-memory index: digest -> record
    pc,             \* position of the single thread of control
    runs,           \* number of process runs started so far
    fetches,        \* number of download_image calls made so far, over all runs
    no_index,       \* args.no_index of the current run
    max_bytes,      \* args.max of the current run
    urls,           \* gather_urls' result for the current run
    i,              \* number of URLs of the current run already handed to download_image
    success_count,  \* main's success_count
    skip_count,     \* main's skip_count
    url,            \* download_image's url argument of the current/last call
    resp,           \* the response object inside download_image (None outside)
    filename,       \* download_image's local filename (target name)
    content_type,   \* download_image's local content_type
    stream,         \* body bytes not yet delivered by resp.iter_content
    sha,            \* bytes fed to sha.update so far
    total,          \* download_image's local total
    ret,            \* (ok, msg) of the last download_image call, as main holds it
    calls,          \* history: URLs download_image was called with in this run
    saves,          \* history: number of save_index calls in this run
    published,      \* history: final name -> body of every file a successful call published
    persisted,      \* history: digests held by the index at the last save_index
    recorded,       \* history: digests successful calls of this run recorded
    args_urls,      \* the URLs of the current run as given, before de-duplication
    san_in,         \* input of the sanitizer (sanitizer specification only)
    san_out         \* output of the sanitizer (sanitizer specification only)

vars == <<fs, index, pc, runs, fetches, no_index, max_bytes, urls, i, success_count,
          skip_count, url, resp, filename, content_type, stream, sha, total,
          ret, calls, saves, published, persisted, recorded, args_urls, san_in, san_out>>

sanvars == <<san_in, san_out>>
runvars == <<runs, no_index, max_bytes, urls, args_urls>>

(***************************************************************************)
(* Bounds of the model.                                                    *)
(***************************************************************************)
MaxRuns == 2        \* process runs in sequence over the same output directory
MaxUrls == 2        \* length of the raw URL list of one run
MaxCalls == 2       \* download_image calls over all runs
MaxSanLen == 4      \* length of a sanitizer input

(***************************************************************************)
(* Characters and strings.                                                 *)
(***************************************************************************)
Letters == {"a","b","c","d","e","f","g","h","i","j","k","l","m","n","o","p","q",
            "r","s","t","u","v","w","x","y","z","A","B","C","D","E","F","G","H",
            "I","J","K","L","M","N","O","P","Q","R","S","T","U","V","W","X","Y","Z"}
DigitChars == {"0","1","2","3","4","5","6","7","8","9"}
HexDigits == DigitChars \cup {"a","b","c","d","e","f","A","B","C","D","E","F"}
\* the class [A-Za-z0-9._-] of line 57
SafeChars == Letters \cup DigitChars \cup {".", "_", "-"}

Min(a, b) == IF a < b THEN a ELSE b

\* s[from..] (Python s[from-1:])
Drop(s, from) == SubSeq(s, from, Len(s))

\* index of the last occurrence of c in s, 0 when absent (str.rfind + 1)
RECURSIVE RFind(_, _)
RFind(s, c) ==
    IF s = <<>> THEN 0
    ELSE IF s[Len(s)] = c THEN Len(s)
    ELSE RFind(SubSeq(s, 1, Len(s) - 1), c)

\* one %XX escape decoded (urllib.parse.unquote, utf-8, errors='replace').
\* The sanitizer inputs of this model can only form the escapes below:
\* %2F is '/', %22 is '"', %F2 and %FF are bytes that are no UTF-8 text and
\* decode to U+FFFD each.
PctDecode(h1, h2) ==
    CASE <<h1, h2>> = <<"2", "F">> -> "/"
      [] <<h1, h2>> = <<"2", "2">> -> "\""
      [] OTHER -> "U+FFFD"

RECURSIVE unquote(_)
unquote(s) ==
    IF s = <<>> THEN <<>>
    ELSE IF s[1] = "%" /\ Len(s) >= 3 /\ s[2] \in HexDigits /\ s[3] \in HexDigits
         THEN <<PctDecode(s[2], s[3])>> \o unquote(Drop(s, 4))
         ELSE <<s[1]>> \o unquote(Drop(s, 2))

\* os.path.basename (posixpath): what follows the last '/'
basename(p) == Drop(p, RFind(p, "/") + 1)

\* re.sub(r"[^A-Za-z0-9._-]", "_", name)
ReplaceUnsafe(s) == [k \in 1..Len(s) |-> IF s[k] \in SafeChars THEN s[k] ELSE "_"]

\* re.sub(r"_+", "_", name)
RECURSIVE CollapseUnderscores(_)
CollapseUnderscores(s) ==
    IF Len(s) < 2 THEN s
    ELSE IF s[1] = "_" /\ s[2] = "_" THEN CollapseUnderscores(Drop(s, 2))
    ELSE <<s[1]>> \o CollapseUnderscores(Drop(s, 2))

NAME_LIMIT == 200
PLACEHOLDER == <<"d","o","w","n","l","o","a","d","e","d","_","i","m","a","g","e">>

sanitize_filename(name) ==
    LET n0 == IF name = <<>> THEN PLACEHOLDER ELSE name
        n1 == unquote(n0)
        n2 == basename(n1)
        n3 == ReplaceUnsafe(n2)
        n4 == CollapseUnderscores(n3)
    IN  SubSeq(n4, 1, Min(Len(n4), NAME_LIMIT))

\* os.path.splitext (genericpath._splitext) of a name without separators:
\* the extension starts at the last dot, unless only dots precede it
RECURSIVE AllDots(_)
AllDots(s) == s = <<>> \/ (s[1] = "." /\ AllDots(Drop(s, 2)))

splitext(p) ==
    LET d == RFind(p, ".")
    IN  IF d > 0 /\ ~AllDots(SubSeq(p, 1, d - 1))
        THEN <<SubSeq(p, 1, d - 1), Drop(p, d)>>
        ELSE <<p, <<>>>>

(***************************************************************************)
(* Configuration (lines 29-43).                                            *)
(***************************************************************************)
INDEX_FILENAME == <<"i","n","d","e","x",".","j","s","o","n">>
\* CHUNK_SIZE is 8192 in the source; the model streams bodies of a few bytes
CHUNK_SIZE == 2
ALLOWED_IMAGE_TYPES ==
    { <<"i","m","a","g","e","/","j","p","e","g">>,
      <<"i","m","a","g","e","/","p","n","g">>,
      <<"i","m","a","g","e","/","g","i","f">>,
      <<"i","m","a","g","e","/","w","e","b","p">>,
      <<"i","m","a","g","e","/","s","v","g","+","x","m","l">>,
      <<"i","m","a","g","e","/","b","m","p">>,
      <<"i","m","a","g","e","/","t","i","f","f">> }

TMP_SUFFIX == <<".","t","m","p">>
IMG_SUFFIX == <<".","i","m","g">>
IMAGE_PREFIX == <<"i","m","a","g","e","/">>

(***************************************************************************)
(* More string helpers used by download_image.                             *)
(***************************************************************************)
DigitSeq == <<"0","1","2","3","4","5","6","7","8","9">>
UpperSeq == <<"A","B","C","D","E","F","G","H","I","J","K","L","M",
              "N","O","P","Q","R","S","T","U","V","W","X","Y","Z">>
LowerSeq == <<"a","b","c","d","e","f","g","h","i","j","k","l","m",
              "n","o","p","q","r","s","t","u","v","w","x","y","z">>
Whitespace == {" ", "\t"}

\* str(i) of f"{base}_{i}{ext}"
RECURSIVE Decimal(_)
Decimal(n) ==
    IF n < 10 THEN <<DigitSeq[n + 1]>>
    ELSE Decimal(n \div 10) \o <<DigitSeq[(n % 10) + 1]>>

DigitVal(c) == CHOOSE k \in 0..9 : DigitSeq[k + 1] = c

RECURSIVE NatVal(_)
NatVal(s) ==
    IF s = <<>> THEN 0
    ELSE NatVal(SubSeq(s, 1, Len(s) - 1)) * 10 + DigitVal(s[Len(s)])

\* int(s) succeeds: an optional sign and at least one digit (the header
\* values of this model hold no whitespace and no underscores)
IsInt(s) ==
    LET digits == IF s # <<>> /\ s[1] \in {"+", "-"} THEN Drop(s, 2) ELSE s
    IN  digits # <<>> /\ \A k \in 1..Len(digits) : digits[k] \in DigitChars

IntVal(s) ==
    IF s[1] = "-" THEN 0 - NatVal(Drop(s, 2))
    ELSE IF s[1] = "+" THEN NatVal(Drop(s, 2))
    ELSE NatVal(s)

ToLower(c) ==
    IF \E k \in 1..26 : UpperSeq[k] = c
    THEN LowerSeq[CHOOSE k \in 1..26 : UpperSeq[k] = c]
    ELSE c

lower(s) == [k \in 1..Len(s) |-> ToLower(s[k])]

RECURSIVE lstrip(_)
lstrip(s) == IF s # <<>> /\ s[1] \in Whitespace THEN lstrip(Drop(s, 2)) ELSE s

RECURSIVE rstrip(_)
rstrip(s) ==
    IF s # <<>> /\ s[Len(s)] \in Whitespace THEN rstrip(SubSeq(s, 1, Len(s) - 1)) ELSE s

strip(s) == rstrip(lstrip(s))

\* s.split(";")[0]
RECURSIVE BeforeSemicolon(_)
BeforeSemicolon(s) ==
    IF s = <<>> \/ s[1] = ";" THEN <<>>
    ELSE <<s[1]>> \o BeforeSemicolon(Drop(s, 2))

startswith(s, prefix) ==
    Len(s) >= Len(prefix) /\ SubSeq(s, 1, Len(prefix)) = prefix

(***************************************************************************)
(* Files.  An image file holds the bytes written to it; the index file     *)
(* holds the mapping json.dump wrote.  The field kind is compared first.   *)
(***************************************************************************)
Img(bytes) == [kind |-> "image", payload |-> bytes]
IdxFile(idx) == [kind |-> "index", payload |-> idx]

exists(fsys, name) == name \in DOMAIN fsys
remove(fsys, name) == [p \in DOMAIN fsys \ {name} |-> fsys[p]]
write(fsys, name, content) ==
    [p \in DOMAIN fsys \cup {name} |-> IF p = name THEN content ELSE fsys[p]]
HoldsImage(fsys, name, bytes) ==
    /\ name \in DOMAIN fsys
    /\ fsys[name].kind = "image"
    /\ fsys[name].payload = bytes

\* a load_index that never reads the file
load_index_Fresh(fsys) == <<>>

\* load_index (lines 62-69): the mapping the file holds; {} when the file is
\* absent or is no JSON (an image published under the index's name)
load_index(fsys) ==
    IF exists(fsys, INDEX_FILENAME)
    THEN IF fsys[INDEX_FILENAME].kind = "index"
         THEN fsys[INDEX_FILENAME].payload
         ELSE <<>>
    ELSE <<>>

\* save_index (lines 71-73): open(index_path, "w") and json.dump
save_index(fsys, idx) == write(fsys, INDEX_FILENAME, IdxFile(idx))

\* make_unique_path (lines 75-82), as the base name of the returned path
RECURSIVE UniqueFrom(_, _, _, _)
UniqueFrom(fsys, base, ext, k) ==
    LET candidate == base \o <<"_">> \o Decimal(k) \o ext
    IN  IF exists(fsys, candidate) THEN UniqueFrom(fsys, base, ext, k + 1)
        ELSE candidate

\* a make_unique_path that does not look at the directory
make_unique_path_NoCheck(fsys, name) == name

make_unique_path(fsys, name) ==
    LET be == splitext(name)
    IN  IF exists(fsys, name) THEN UniqueFrom(fsys, be[1], be[2], 1) ELSE name

\* ext_from_content_type (lines 84-98)
ext_from_content_type(ct) ==
    LET c == lower(strip(BeforeSemicolon(ct)))
    IN  CASE c = <<"i","m","a","g","e","/","j","p","e","g">> -> <<".","j","p","g">>
          [] c = <<"i","m","a","g","e","/","p","n","g">> -> <<".","p","n","g">>
          [] c = <<"i","m","a","g","e","/","g","i","f">> -> <<".","g","i","f">>
          [] c = <<"i","m","a","g","e","/","w","e","b","p">> -> <<".","w","e","b","p">>
          [] c = <<"i","m","a","g","e","/","s","v","g","+","x","m","l">> -> <<".","s","v","g">>
          [] c = <<"i","m","a","g","e","/","b","m","p">> -> <<".","b","m","p">>
          [] c = <<"i","m","a","g","e","/","t","i","f","f">> -> <<".","t","i","f","f">>
          [] OTHER -> <<>>

(***************************************************************************)
(* The inputs: URLs (scheme and host fixed, a URL is its path, which is    *)
(* what urlparse(url).path returns), response headers and bodies.  An      *)
(* absent header is the empty string: lines 114, 120 and 130 take the same *)
(* branch for both.                                                        *)
(***************************************************************************)
Absent == <<>>

Urls ==
    {       <<"/","a",".","j","p","g",".","t","m","p">>,
      <<"/","i","n","d","e","x",".","j","s","o","n">> }

Bodies == { <<1>>, <<2, 2, 2>>, <<3, 3, 3, 3>> }

\* the longest body a response carries
MaxBodyLen == CHOOSE n \in { Len(b) : b \in Bodies } : \A b \in Bodies : Len(b) <= n

\* the --max of a run (10 MB by default in the source): here one byte less
\* than the longest body, so that one body is over the limit
BigLimit == MaxBodyLen - 1

ContentTypeHeaders ==
    { Absent,
      <<"i","m","a","g","e","/","j","p","e","g">>,
      <<"I","m","a","g","e","/","J","P","E","G",";"," ","c","h","a","r","s","e","t","=","b","i","n","a","r","y">>,
      <<"t","e","x","t","/","h","t","m","l">>,
      <<"i","m","a","g","e","/","x","-","i","c","o","n">> }

ContentLengthHeaders ==
    { Absent, <<"x">>, Decimal(BigLimit), Decimal(BigLimit + 1) }

ContentDispositionHeaders ==
    { Absent,
      <<"i","n","l","i","n","e">>,
      <<"a","t","t","a","c","h","m","e","n","t",";"," ","f","i","l","e","n","a","m","e","=","\"","a","\"">>,
      <<"a","t","t","a","c","h","m","e","n","t",";"," ","f","i","l","e","n","a","m","e","=","x","/">> }

AllResponses ==
    [status : {200, 304, 404}, ctype : ContentTypeHeaders, clen : ContentLengthHeaders,
     cd : ContentDispositionHeaders, body : Bodies]

\* the plain response: 200, image/jpeg, no Content-Length, no Content-Disposition
Unusual(r) ==
    (IF r.status # 200 THEN 1 ELSE 0)
    + (IF r.ctype # <<"i","m","a","g","e","/","j","p","e","g">> THEN 1 ELSE 0)
    + (IF r.clen # Absent THEN 1 ELSE 0)
    + (IF r.cd # Absent THEN 1 ELSE 0)

\* the responses a request is answered with: any body, and headers that differ
\* from the plain response in at most one header
Responses ==
    { r \in AllResponses : Unusual(r) <= 1 }

NoResp == [status |-> 0, ctype |-> Absent, clen |-> Absent, cd |-> Absent, body |-> <<>>]

MaxChoices == { BigLimit }

RawUrlLists == UNION { [1..n -> Urls] : n \in 0..MaxUrls }

NoRet == [ok |-> FALSE, kind |-> "none", path |-> <<>>, target |-> <<>>]

(***************************************************************************)
(* download_image, header stage (lines 108-146).                           *)
(***************************************************************************)
\* resp.raise_for_status() raises (line 109)
raise_for_status(r) == r.status >= 400 /\ r.status < 600

\* line 114
NormalizedContentType(r) == lower(strip(BeforeSemicolon(r.ctype)))

\* line 115
TypeRejected(ct) == ~startswith(ct, IMAGE_PREFIX) \/ ct \notin ALLOWED_IMAGE_TYPES

\* a length check that also rejects a length equal to the limit
LengthRejected_AtLimit(cl, limit) == cl # <<>> /\ IsInt(cl) /\ IntVal(cl) >= limit

\* lines 119-125
LengthRejected(cl, limit) == cl # <<>> /\ IsInt(cl) /\ IntVal(cl) > limit

\* the longest prefix matching [^";]+ (or the empty string)
RECURSIVE TakeValue(_)
TakeValue(s) ==
    IF s = <<>> \/ s[1] \in {"\"", ";"} THEN <<>>
    ELSE <<s[1]>> \o TakeValue(Drop(s, 2))

CD_KEY == <<"f","i","l","e","n","a","m","e">>
CD_UTF8 == <<"U","T","F","-","8","'","'">>

\* the regular expression of line 132 matched at the start of s: group(1),
\* or the empty string when there is no match here
CdMatchHere(s) ==
    IF ~startswith(s, CD_KEY) THEN <<>>
    ELSE LET r1 == Drop(s, Len(CD_KEY) + 1)
             r2 == IF r1 # <<>> /\ r1[1] = "*" THEN Drop(r1, 2) ELSE r1
         IN  IF r2 = <<>> \/ r2[1] # "=" THEN <<>>
             ELSE LET r3 == Drop(r2, 2)
                      unq(t) == IF t # <<>> /\ t[1] = "\"" THEN Drop(t, 2) ELSE t
                      withPrefix == IF startswith(r3, CD_UTF8)
                                    THEN TakeValue(unq(Drop(r3, Len(CD_UTF8) + 1)))
                                    ELSE <<>>
                  IN  IF withPrefix # <<>> THEN withPrefix ELSE TakeValue(unq(r3))

\* re.search: the leftmost match
RECURSIVE CdSearch(_)
CdSearch(s) ==
    IF s = <<>> THEN <<>>
    ELSE IF CdMatchHere(s) # <<>> THEN CdMatchHere(s)
    ELSE CdSearch(Drop(s, 2))

\* lines 127-143: the target filename
TargetName(r, u) ==
    LET g == IF r.cd # <<>> THEN CdSearch(r.cd) ELSE <<>>
        fromCd == IF g # <<>> THEN sanitize_filename(g) ELSE <<>>
        name == IF fromCd # <<>> THEN fromCd ELSE sanitize_filename(basename(u))
        ext == ext_from_content_type(NormalizedContentType(r))
    IN  IF splitext(name)[2] = <<>>
        THEN (IF ext # <<>> THEN name \o ext ELSE name \o IMG_SUFFIX)
        ELSE name

\* a download that writes straight to the target name
TmpPath_InPlace(name) == name

\* line 146, as a base name in the output directory
TmpPath(name) == name \o TMP_SUFFIX

\* lines 164-165, 173-174, 183-184
RemoveIfExists(fsys, name) == IF exists(fsys, name) THEN remove(fsys, name) ELSE fsys

\* gather_urls, lines 232-239
RECURSIVE DedupeFrom(_, _, _)
DedupeFrom(raw, k, final) ==
    IF k > Len(raw) THEN final
    ELSE IF \E j \in 1..Len(final) : final[j] = raw[k]
         THEN DedupeFrom(raw, k + 1, final)
         ELSE DedupeFrom(raw, k + 1, Append(final, raw[k]))

gather_urls(raw) == DedupeFrom(raw, 1, <<>>)

(***************************************************************************)
(* The state machine.                                                      *)
(***************************************************************************)
Init ==
    /\ fs = <<>>
    /\ index = <<>>
    /\ pc = "shell"
    /\ runs = 0
    /\ fetches = 0
    /\ no_index = FALSE
    /\ max_bytes = BigLimit
    /\ urls = <<>>
    /\ args_urls = <<>>
    /\ i = 0
    /\ success_count = 0
    /\ skip_count = 0
    /\ url = <<>>
    /\ resp = NoResp
    /\ filename = <<>>
    /\ content_type = <<>>
    /\ stream = <<>>
    /\ sha = <<>>
    /\ total = 0
    /\ ret = NoRet
    /\ calls = <<>>
    /\ saves = 0
    /\ published = <<>>
    /\ persisted = {}
    /\ recorded = {}
    /\ san_in = <<>>
    /\ san_out = <<>>

\* main, lines 242-258: a process starts on the output directory as the
\* earlier runs left it
StartRun ==
    /\ pc = "shell"
    /\ runs < MaxRuns
    /\ \E ni \in BOOLEAN, mb \in MaxChoices, raw \in RawUrlLists :
          /\ fetches + Len(gather_urls(raw)) <= MaxCalls
          /\ no_index' = ni
          /\ max_bytes' = mb
          /\ args_urls' = raw
          /\ index' = IF ni THEN <<>> ELSE load_index(fs)
          /\ urls' = gather_urls(raw)
          /\ pc' = IF gather_urls(raw) = <<>> THEN "shell" ELSE "loop"
    /\ runs' = runs + 1
    /\ i' = 0
    /\ success_count' = 0
    /\ skip_count' = 0
    /\ calls' = <<>>
    /\ saves' = 0
    /\ recorded' = {}
    /\ ret' = NoRet
    /\ url' = <<>>
    /\ UNCHANGED <<fs, fetches, resp, filename, content_type, stream, sha, total,
                   published, persisted, sanvars>>

\* a main loop that a failure ends
Return_Fatal(ok, kind, path, target) ==
    /\ ret' = [ok |-> ok, kind |-> kind, path |-> path, target |-> target]
    /\ success_count' = IF ok THEN success_count + 1 ELSE success_count
    /\ skip_count' = IF ok THEN skip_count ELSE skip_count + 1
    /\ pc' = IF ok THEN "loop" ELSE "shell"
    /\ resp' = NoResp
    /\ filename' = <<>>
    /\ content_type' = <<>>
    /\ stream' = <<>>
    /\ sha' = <<>>
    /\ total' = 0

\* download_image returns (ok, msg) and main counts it, lines 263-268; the
\* locals of download_image are gone
Return(ok, kind, path, target) ==
    /\ ret' = [ok |-> ok, kind |-> kind, path |-> path, target |-> target]
    /\ success_count' = IF ok THEN success_count + 1 ELSE success_count
    /\ skip_count' = IF ok THEN skip_count ELSE skip_count + 1
    /\ pc' = "loop"
    /\ resp' = NoResp
    /\ filename' = <<>>
    /\ content_type' = <<>>
    /\ stream' = <<>>
    /\ sha' = <<>>
    /\ total' = 0

\* main line 260-262 and download_image lines 103-106: the next URL is
\* requested; the request fails or a response arrives
Get ==
    /\ pc = "loop"
    /\ i < Len(urls)
    /\ i' = i + 1
    /\ fetches' = fetches + 1
    /\ url' = urls[i + 1]
    /\ calls' = Append(calls, urls[i + 1])
    /\ \/ /\ Return(FALSE, "Request error", <<>>, <<>>)
       \/ /\ \E r \in Responses : resp' = r
          /\ pc' = "headers"
          /\ UNCHANGED <<ret, success_count, skip_count, filename, content_type,
                         stream, sha, total>>
    /\ UNCHANGED <<fs, index, runvars, saves, published, persisted, recorded, sanvars>>

\* download_image lines 108-151: status, Content-Type, Content-Length, the
\* target filename, and the temporary file opened for writing
Headers ==
    /\ pc = "headers"
    /\ LET ct == NormalizedContentType(resp)
           name == TargetName(resp, url)
       IN  IF raise_for_status(resp)
           THEN Return(FALSE, "HTTP error", <<>>, <<>>) /\ UNCHANGED fs
           ELSE IF TypeRejected(ct)
           THEN Return(FALSE, "Rejected type", <<>>, <<>>) /\ UNCHANGED fs
           ELSE IF LengthRejected(resp.clen, max_bytes)
           THEN Return(FALSE, "Rejected length", <<>>, <<>>) /\ UNCHANGED fs
           ELSE \/ /\ fs' = write(fs, TmpPath(name), Img(<<>>))
                   /\ pc' = "stream"
                   /\ filename' = name
                   /\ content_type' = ct
                   /\ stream' = resp.body
                   /\ sha' = <<>>
                   /\ total' = 0
                   /\ resp' = NoResp
                   /\ UNCHANGED <<ret, success_count, skip_count>>
                \/ \* open() raises: lines 163-166
                   /\ fs' = RemoveIfExists(fs, TmpPath(name))
                   /\ Return(FALSE, "Write error", <<>>, name)
    /\ UNCHANGED <<index, runvars, fetches, i, url, calls, saves, published,
                   persisted, recorded, sanvars>>

\* a size check that lags one chunk behind the bytes written
SizeExceeded_Late(tot, limit) == tot > limit + CHUNK_SIZE

\* line 158
SizeExceeded(tot, limit) == tot > limit

\* the next chunk resp.iter_content delivers
NextChunk(s) == SubSeq(s, 1, Min(Len(s), CHUNK_SIZE))

\* download_image lines 152-166: one iteration of the streaming loop
Chunk ==
    /\ pc = "stream"
    /\ stream # <<>>
    /\ LET chunk == NextChunk(stream)
           tmp == TmpPath(filename)
           written == write(fs, tmp, Img(fs[tmp].payload \o chunk))
       IN  \/ /\ SizeExceeded(total + Len(chunk), max_bytes)
              /\ fs' = remove(written, tmp)
              /\ Return(FALSE, "Aborted", <<>>, filename)
           \/ /\ ~SizeExceeded(total + Len(chunk), max_bytes)
              /\ fs' = written
              /\ sha' = sha \o chunk
              /\ total' = total + Len(chunk)
              /\ stream' = Drop(stream, Len(chunk) + 1)
              /\ UNCHANGED <<pc, resp, filename, content_type, ret,
                             success_count, skip_count>>
           \/ \* the read or the write raises: lines 163-166
              /\ fs' = RemoveIfExists(fs, tmp)
              /\ Return(FALSE, "Write error", <<>>, filename)
    /\ UNCHANGED <<index, runvars, fetches, i, url, calls, saves, published,
                   persisted, recorded, sanvars>>

\* a record that names the temporary file
Record_TmpName(name, u, ct, size) ==
    [filename |-> TmpPath(name), url |-> u, content_type |-> ct, size |-> size]

\* the record of lines 188-194 (the timestamp, a clock reading, is left out)
Record(name, u, ct, size) ==
    [filename |-> name, url |-> u, content_type |-> ct, size |-> size]

\* download_image lines 168-196: the body is exhausted
Finish ==
    /\ pc = "stream"
    /\ stream = <<>>
    /\ LET digest == sha
           tmp == TmpPath(filename)
           final == make_unique_path(fs, filename)
       IN  IF digest \in DOMAIN index
           THEN /\ fs' = RemoveIfExists(fs, tmp)
                /\ Return(FALSE, "Duplicate", <<>>, filename)
                /\ UNCHANGED <<index, published, recorded>>
           ELSE \/ \* os.replace(tmp_path, final_path)
                   /\ fs' = write(remove(fs, tmp), final, fs[tmp])
                   /\ index' = [d \in DOMAIN index \cup {digest} |->
                                  IF d = digest
                                  THEN Record(final, url, content_type, total)
                                  ELSE index[d]]
                   /\ published' = [n \in DOMAIN published \cup {final} |->
                                      IF n = final THEN digest ELSE published[n]]
                   /\ recorded' = recorded \cup {digest}
                   /\ Return(TRUE, "Saved", final, filename)
                \/ \* os.replace raises: lines 182-185
                   /\ fs' = RemoveIfExists(fs, tmp)
                   /\ Return(FALSE, "Failed to finalize", <<>>, filename)
                   /\ UNCHANGED <<index, published, recorded>>
    /\ UNCHANGED <<runvars, fetches, i, url, calls, saves, persisted, sanvars>>

\* main lines 273-280: the loop is over, the index is saved
EndRun ==
    /\ pc = "loop"
    /\ i = Len(urls)
    /\ IF no_index
       THEN UNCHANGED <<fs, saves, persisted>>
       ELSE /\ fs' = save_index(fs, index)
            /\ saves' = saves + 1
            /\ persisted' = DOMAIN index
    /\ pc' = "shell"
    /\ UNCHANGED <<index, runvars, fetches, i, success_count, skip_count, url,
                   resp, filename, content_type, stream, sha, total, ret, calls,
                   published, recorded, sanvars>>

Next == StartRun \/ Get \/ Headers \/ Chunk \/ Finish \/ EndRun

Spec == Init /\ [][Next]_vars

(***************************************************************************)
(* The sanitizer on its own: every input up to MaxSanLen characters.       *)
(***************************************************************************)
SanAlphabet == {"a", ".", "/", "%", "2", "F", "_"}
SanInputs == UNION { [1..n -> SanAlphabet] : n \in 0..MaxSanLen }

SanInit ==
    /\ fs = <<>> /\ index = <<>> /\ runs = 0 /\ fetches = 0 /\ no_index = FALSE
    /\ max_bytes = BigLimit /\ urls = <<>> /\ args_urls = <<>> /\ i = 0
    /\ success_count = 0 /\ skip_count = 0 /\ url = <<>> /\ resp = NoResp
    /\ filename = <<>> /\ content_type = <<>> /\ stream = <<>> /\ sha = <<>>
    /\ total = 0 /\ ret = NoRet /\ calls = <<>> /\ saves = 0
    /\ published = <<>> /\ persisted = {} /\ recorded = {}
    /\ pc = "sanitize"
    /\ san_in \in SanInputs
    /\ san_out = <<>>

Sanitize ==
    /\ pc = "sanitize"
    /\ san_out' = sanitize_filename(san_in)
    /\ pc' = "sanitized"
    /\ UNCHANGED <<fs, index, runvars, fetches, i, success_count, skip_count,
                   url, resp, filename, content_type, stream, sha, total, ret,
                   calls, saves, published, persisted, recorded, san_in>>

SanNext == Sanitize

SanSpec == SanInit /\ [][SanNext]_vars

(***************************************************************************)
(* Vocabulary of the properties.                                           *)
(***************************************************************************)
\* download_image is running
InCall == pc \in {"headers", "stream"}

\* this step is a step of download_image (Get starts a call)
DownloadStep == InCall \/ (pc = "loop" /\ i' # i)

\* this step ends a download_image call
CallReturns == DownloadStep /\ pc' = "loop"

\* the body has been streamed whole and line 168 is next
Streamed == pc = "stream" /\ stream = <<>>

\* every file of fsys other than those named in except is in fsys2, unchanged
SameFilesExcept(fsys, fsys2, except) ==
    \A p \in DOMAIN fsys \ except : p \in DOMAIN fsys2 /\ fsys2[p] = fsys[p]

\* the names make_unique_path can return for a target name in a directory of n files
FinalNames(name, n) ==
    {name} \cup { splitext(name)[1] \o <<"_">> \o Decimal(k) \o splitext(name)[2] :
                  k \in 1..(n + 1) }

(***************************************************************************)
(* C1  Idempotence of saving.                                              *)
(***************************************************************************)
\* the digests a successful call recorded in this run, and those of the index
\* an earlier run saved, when this run loaded it
KnownDigests == recorded \cup (IF no_index THEN {} ELSE persisted)

\* C1: once a successful call has recorded a digest (in this run, or in an
\* earlier run whose saved index this run loaded), a call whose streamed body
\* has that digest returns the Duplicate failure, adds no file, adds no index
\* entry and leaves no temporary file.
C1_DuplicateIdempotent ==
    [][ (Streamed /\ sha \in KnownDigests) =>
           /\ CallReturns
           /\ ~ret'.ok /\ ret'.kind = "Duplicate"
           /\ DOMAIN fs' \subseteq DOMAIN fs
           /\ TmpPath(filename) \notin DOMAIN fs'
           /\ index' = index ]_vars

\* a duplicate of content that only an earlier run saved
C1_Witness ==
    /\ ret.kind = "Duplicate"
    /\ recorded = {}
    /\ ~no_index
    /\ persisted # {}

(***************************************************************************)
(* C2  Collision avoidance.                                                *)
(***************************************************************************)
\* C2: a call whose body is streamed and whose digest is new succeeds (unless
\* the rename itself raises) at a path that did not exist before the rename;
\* when the previous call of the run succeeded with the same target filename,
\* the two final paths differ and both files hold their images afterwards.
C2_CollisionAvoidance ==
    [][ (Streamed /\ sha \notin DOMAIN index
         /\ ~(CallReturns /\ ret'.kind = "Failed to finalize")) =>
           /\ CallReturns
           /\ ret'.ok
           /\ ret'.path \notin DOMAIN fs
           /\ HoldsImage(fs', ret'.path, sha)
           /\ (ret.ok /\ ret.target = filename) =>
                 /\ ret'.path # ret.path
                 /\ ret.path \in DOMAIN published
                 /\ published[ret.path] # sha
                 /\ HoldsImage(fs', ret.path, published[ret.path]) ]_vars

\* both calls of the first run succeeded and the second found its target taken
C2_Witness ==
    /\ runs = 1 /\ i = 2 /\ success_count = 2
    /\ ret.ok /\ ret.path # ret.target
    /\ ret.target \in DOMAIN fs /\ ret.path \in DOMAIN fs

(***************************************************************************)
(* C3  Atomic finalize.                                                    *)
(***************************************************************************)
\* C3: while a body is being streamed its bytes are in the temporary file,
\* whose name is none of the names the image can be published under; a chunk
\* write touches no other file; and a name appears in the directory only as a
\* temporary file just opened, as the index file, or through the rename of a
\* wholly streamed body whose digest is new.
C3_AtomicFinalize ==
    [][ /\ pc = "stream" =>
             /\ HoldsImage(fs, TmpPath(filename), sha)
             /\ TmpPath(filename) \notin FinalNames(filename, Cardinality(DOMAIN fs))
        /\ (pc = "stream" /\ stream # <<>>) =>
             /\ DOMAIN fs' \subseteq DOMAIN fs
             /\ SameFilesExcept(fs, fs', {TmpPath(filename)})
        /\ \A p \in DOMAIN fs' \ DOMAIN fs :
             \/ /\ pc = "headers" /\ pc' = "stream"
                /\ p = TmpPath(filename')
                /\ HoldsImage(fs', p, <<>>)
             \/ /\ Streamed /\ sha \notin DOMAIN index
                /\ ret'.ok /\ p = ret'.path
                /\ p \in FinalNames(filename, Cardinality(DOMAIN fs))
                /\ HoldsImage(fs', p, sha)
             \/ /\ pc = "loop" /\ pc' = "shell" /\ p = INDEX_FILENAME ]_vars

\* between two chunk writes
C3_Witness == pc = "stream" /\ sha # <<>> /\ stream # <<>>

(***************************************************************************)
(* C4  Header-stage rejections.                                            *)
(***************************************************************************)
HeaderFailures == {"HTTP error", "Rejected type", "Rejected length"}
BadType(r) == lower(strip(BeforeSemicolon(r.ctype))) \notin ALLOWED_IMAGE_TYPES
DeclaredTooLong(r) == IsInt(r.clen) /\ IntVal(r.clen) > max_bytes
NoEffects ==
    /\ CallReturns /\ ~ret'.ok /\ ret'.kind \in HeaderFailures
    /\ fs' = fs /\ index' = index

C5_StreamingCap ==
    [][ /\ (pc = "stream" /\ stream # <<>>
            /\ ~(CallReturns /\ ret'.kind = "Write error")
            /\ total + Len(NextChunk(stream)) > max_bytes) =>
              /\ CallReturns /\ ~ret'.ok /\ ret'.kind = "Aborted"
              /\ TmpPath(filename) \notin DOMAIN fs'
              /\ DOMAIN fs' \subseteq DOMAIN fs
              /\ index' = index /\ published' = published
        /\ (pc = "stream" /\ pc' = "loop" /\ ret'.ok) =>
              /\ sha \in DOMAIN index'
              /\ index'[sha].size <= max_bytes
              /\ HoldsImage(fs', ret'.path, sha)
              /\ index'[sha].size = Len(fs'[ret'.path].payload) ]_vars

\* an abort in mid-transfer
C5_Witness == ret.kind = "Aborted" /\ ret.target # <<>>

(***************************************************************************)
(* C6  The sanitizer's result.                                             *)
(***************************************************************************)
\* C6: sanitize_filename returns a non-empty string of at most 200 characters
\* of [A-Za-z0-9._-] for every input.
C6_SanitizeUsable ==
    pc = "sanitized" =>
       /\ san_out # <<>>
       /\ Len(san_out) <= 200
       /\ \A k \in 1..Len(san_out) : san_out[k] \in SafeChars

(***************************************************************************)
(* C7  No failure is fatal to the run.                                     *)
(***************************************************************************)
FirstIndex(seq, x) == CHOOSE k \in 1..Len(seq) : seq[k] = x /\ \A j \in 1..(k - 1) : seq[j] # x
Range(seq) == { seq[k] : k \in 1..Len(seq) }

\* urls is args_urls without repetitions, in first-seen order
FirstSeenOrder ==
    /\ Range(urls) = Range(args_urls)
    /\ \A a, b \in 1..Len(urls) :
          a < b => FirstIndex(args_urls, urls[a]) < FirstIndex(args_urls, urls[b])

\* the steps the run can still take, at most
Measure ==
    CASE pc = "loop" -> (Len(urls) - i) * (MaxBodyLen + 4) + 1
      [] pc = "headers" -> (Len(urls) - i) * (MaxBodyLen + 4) + MaxBodyLen + 3
      [] pc = "stream" -> (Len(urls) - i) * (MaxBodyLen + 4) + Len(stream) + 2
      [] OTHER -> 0

RunInvariant ==
    /\ FirstSeenOrder
    /\ i <= Len(urls)
    /\ calls = SubSeq(urls, 1, i)
    /\ success_count + skip_count = (IF InCall THEN i - 1 ELSE i)
    /\ pc # "shell" => saves = 0
    /\ (pc = "shell" /\ urls # <<>>) =>
          /\ calls = urls
          /\ success_count + skip_count = Len(urls)
          /\ saves = (IF no_index THEN 0 ELSE 1)

\* C7: download_image is called once per distinct URL in first-seen order,
\* whatever the earlier outcomes, and every outcome is counted; inside a run
\* the loop is never past the list and every step brings the end of the run
\* nearer; when the run is over every URL has been called, success_count +
\* skip_count is their number, and the index has been saved once (never with
\* --no-index), and not before the last URL was processed.
C7_NoFailureFatal ==
    [][ /\ RunInvariant
        /\ RunInvariant'
        /\ pc # "shell" => (Measure' < Measure /\ Measure' >= 0) ]_vars

\* a run of two URLs is over, the first of them failed, the second was saved
C7_Witness ==
    /\ pc = "shell" /\ Len(urls) = 2
    /\ success_count = 1 /\ skip_count = 1
    /\ ret.ok /\ saves = 1

(***************************************************************************)
(* C8  The index only grows.                                               *)
(***************************************************************************)
\* C8: a step of download_image leaves the index as it is or adds one record
\* under a digest that was absent; a call that fails leaves it unchanged; a
\* call that succeeds adds exactly one record, whose filename is the base name
\* of the returned path and whose url is the requested URL.
C8_IndexGrows ==
    [][ DownloadStep =>
          /\ \A d \in DOMAIN index : d \in DOMAIN index' /\ index'[d] = index[d]
          /\ (CallReturns /\ ~ret'.ok) => index' = index
          /\ ~CallReturns => index' = index
          /\ (CallReturns /\ ret'.ok) =>
                \E d \in DOMAIN index' \ DOMAIN index :
                   /\ DOMAIN index' = DOMAIN index \cup {d}
                   /\ d = sha
                   /\ index'[d].filename = ret'.path
                   /\ index'[d].url = url
                   /\ url = urls[i] ]_vars

\* a second record has been added
C8_Witness == ret.ok /\ Cardinality(DOMAIN index) >= 2

(***************************************************************************)
(* C9  Published files are left alone by later calls.                      *)
(***************************************************************************)
\* C9: no step of download_image modifies or removes a file that an earlier
\* successful call published and that still holds its image.
C9_PublishedUntouched ==
    [][ DownloadStep =>
          \A p \in DOMAIN published :
             HoldsImage(fs, p, published[p]) => HoldsImage(fs', p, published[p]) ]_vars

(***************************************************************************)
(* C10  Saving the index overwrites no image.                              *)
(***************************************************************************)
\* C10: when the index is saved at the end of a run, every file an index
\* record names that held its image before the save holds it after the save.
C10_SaveKeepsImages ==
    [][ (pc = "loop" /\ pc' = "shell" /\ ~no_index) =>
          \A d \in DOMAIN index :
             HoldsImage(fs, index[d].filename, d) => HoldsImage(fs', index[d].filename, d) ]_vars

====
